---- MODULE Spec2Model ----
(***************************************************************************)
(* Model of src/server.py: the clicker-game backend.  The Firestore player *)
(* collection is the variable players; every handler is split at its store *)
(* operations (query, update, set), each of which is one atomic step, so   *)
(* that requests served by different workers can interleave.               *)
(*                                                                         *)
(* Time is counted in ticks of 1/TicksPerSecond second, read from one      *)
(* clock that never runs backwards.  The actions of a batch reach the      *)
(* handler as PlayerAction objects, which the handler reads as mappings    *)
(* (a.get("type"), line 228): every batch that is not empty ends in an     *)
(* unhandled AttributeError there, answered 500 with nothing stored.       *)
(* Requests interleave only when the app is served by more than one        *)
(* worker on the same store (SpecConcurrent); Spec serves them in turn.    *)
(***************************************************************************)
EXTENDS Integers, Sequences, FiniteSets, TLC

\* ---------------------------------------------------------------- bounds
MaxTime == 3
MaxRequests == 2
MaxClicks == 5
MaxBoardScore == 1
MaxFriendCalls == 4

\* ------------------------------------------------------------- constants
max_clicks_per_second == 10
\* line 329: .limit(10)
LeaderboardLimit == 10

\* The clock counts ticks of 1/20 second, so that a request can arrive less
\* than 1/max_clicks_per_second second after the previous one.
TicksPerSecond == 2 * max_clicks_per_second

NoneId == "<None>"

UpgradeIds == {"upgrade1", "upgrade2", "upgrade3", "upgrade4", "upgrade5"}

\* costMultiplier is kept as a number of tenths (1.5 -> 15).
SERVER_UPGRADES_META ==
  [u \in UpgradeIds |->
     CASE u = "upgrade1" -> [baseCost |-> 10,    costMultiplier10 |-> 15, ppcIncrease |-> 1,  ppsIncrease |-> 0]
       [] u = "upgrade2" -> [baseCost |-> 100,   costMultiplier10 |-> 16, ppcIncrease |-> 0,  ppsIncrease |-> 5]
       [] u = "upgrade3" -> [baseCost |-> 500,   costMultiplier10 |-> 17, ppcIncrease |-> 5,  ppsIncrease |-> 0]
       [] u = "upgrade4" -> [baseCost |-> 2000,  costMultiplier10 |-> 18, ppcIncrease |-> 0,  ppsIncrease |-> 25]
       [] u = "upgrade5" -> [baseCost |-> 10000, costMultiplier10 |-> 19, ppcIncrease |-> 20, ppsIncrease |-> 0]]

AiId == "ai1"
UpgradeKeys == UpgradeIds \cup {AiId}

\* ------------------------------------------------------- pure arithmetic
\* Python int(): truncation toward zero of the quotient n / d (d > 0).
IntTrunc(n, d) == IF n >= 0 THEN n \div d ELSE -((-n) \div d)

\* Passive income credited twice.
PassiveEarnedDouble(sps, ticks) == 2 * IntTrunc(sps * ticks, TicksPerSecond)

\* Passive income with the two timestamps subtracted the wrong way round.
PassiveEarnedReversed(sps, ticks) == IntTrunc(sps * (0 - ticks), TicksPerSecond)

\* The code evaluates sps * seconds_passed in double precision and truncates.
\* For these (sps, ticks) pairs the double product lies just below the exact
\* integer value (45 * 1.4 is 62.99999999999999), so int() yields one less;
\* for every other pair with sps < 200 and 0 <= ticks < 60 the two agree.
PassiveShortfallPairs ==
  {<<45, 28>>, <<45, 56>>, <<50, 46>>, <<60, 41>>, <<85, 28>>, <<85, 56>>, <<90, 14>>,
   <<90, 28>>, <<90, 46>>, <<90, 56>>, <<100, 23>>, <<100, 41>>, <<100, 46>>, <<100, 51>>,
   <<110, 46>>, <<120, 41>>, <<165, 28>>, <<165, 56>>, <<170, 14>>, <<170, 28>>,
   <<170, 46>>, <<170, 56>>, <<175, 28>>, <<175, 56>>, <<180, 7>>, <<180, 14>>,
   <<180, 23>>, <<180, 28>>, <<180, 41>>, <<180, 46>>, <<180, 51>>, <<180, 56>>,
   <<190, 46>>}

PassiveShortfall(sps, ticks) == IF <<sps, ticks>> \in PassiveShortfallPairs THEN 1 ELSE 0

\* lines 184-185 / 224-225: int(sps * seconds_passed), seconds = ticks / TicksPerSecond
PassiveEarned(sps, ticks) ==
  IntTrunc(sps * ticks, TicksPerSecond) - PassiveShortfall(sps, ticks)

\* lines 232-233: seconds_passed > 0 and click_count / seconds_passed > 10
TooManyClicks(click_count, ticks) ==
  /\ ticks > 0
  /\ TicksPerSecond * click_count > max_clicks_per_second * ticks

\* ---------------------------------------------------------------- inputs
Click == [type |-> "click", upgrade_id |-> NoneId, is_ai_upgrade |-> FALSE]
Buy(u) == [type |-> "buy_upgrade", upgrade_id |-> u, is_ai_upgrade |-> FALSE]
BuyAI(u) == [type |-> "buy_upgrade", upgrade_id |-> u, is_ai_upgrade |-> TRUE]
Other == [type |-> "dance", upgrade_id |-> NoneId, is_ai_upgrade |-> FALSE]

Clicks(k) == [j \in 1..k |-> Click]

BuyActions == {Buy("upgrade1"), Buy("upgrade2"), Buy("upgrade3"), Buy("nope"),
               Buy(NoneId), BuyAI(AiId), Other}

PairActions == {Buy("upgrade1"), Buy("nope"), BuyAI(AiId)}

SinglePurchases == {<<a>> : a \in BuyActions}

PairPurchases == {<<a, b>> : a, b \in PairActions}

ClickCounts == {0, 1, 2, MaxClicks}

\* The batches a client submits: clicks alone, clicks followed by one or two
\* further actions, and actions with a click between or after them.
Batches == {Clicks(k) : k \in ClickCounts}
             \cup {Clicks(k) \o p : k \in {0, MaxClicks}, p \in SinglePurchases}
             \cup PairPurchases
             \cup {<<Buy("upgrade1"), Click, Buy("upgrade1")>>, <<Buy("nope"), Click>>}

\* The batches of two requests that are served at the same time.
ConcurrentBatches == {<< >>, <<Click, Buy("upgrade2")>>}

\* An Authorization header is the sequence of its pieces between single
\* spaces; << >> is a missing (or empty) header.
Headers == {<< >>, <<"Bearer", "t0">>, <<"Bearer", "u2">>, <<"Bearer", "zzz">>,
            <<"Basic", "t0">>, <<"Bearer">>, <<"Bearer", "", "t0">>,
            <<"Bearer", "t0", "x">>}

\* The headers sent with a batch of actions.
ActionHeaders == {<< >>, <<"Bearer", "t0">>, <<"Bearer", "u2">>, <<"Bearer", "zzz">>,
                  <<"Basic", "t0">>}

Names == {<< >>, <<" ">>, <<"a">>, <<" ", "a", " ">>, <<"b">>}

UuidPool == <<"u1", "u2", "u3", "u4">>

\* ----------------------------------------------------------------- state
VARIABLES clock, players, nextUuid, req, issued, friend_requests, friends

vars == <<clock, players, nextUuid, req, issued, friend_requests, friends>>

Workers == {1, 2}

NoUpgrades == [u \in UpgradeKeys |-> 0]
NoAI == [present |-> FALSE, id |-> NoneId, cost |-> 0, ppcIncrease |-> 0, ppsIncrease |-> 0]

\* lines 148-156: new_player_data
NewPlayer(name, token, now) ==
  [name |-> name, token |-> token, score |-> 0, sps |-> 0, upgrades |-> NoUpgrades,
   last_updated |-> now, ai_suggested_upgrade |-> NoAI,
   hasPointsPerClick |-> FALSE, pointsPerClick |-> 0]

Idle ==
  [pc |-> "idle", op |-> "none", header |-> << >>, batch |-> << >>,
   payload_name |-> << >>, name |-> << >>,
   player |-> NewPlayer(<< >>, "", 0), doc_id |-> "", now |-> 0,
   score |-> 0, sps |-> 0, player_upgrades |-> NoUpgrades,
   status |-> 0, detail |-> "", token |-> "", result |-> << >>,
   sender |-> << >>, receiver |-> << >>, accept |-> FALSE,
   sender_id |-> "", receiver_id |-> "", call |-> 0, request_doc |-> 0]

\* The oldest seed record was last updated 1.25 s before the clock's origin.
SeedAge == TicksPerSecond + TicksPerSecond \div 4

\* Records the store may hold when the server starts serving.  None holds an
\* AI offer: line 155 stores None and no handler writes the field.
SeedPlayers ==
  LET base == NewPlayer(<<"a">>, "t0", 0) IN
  { base,
    [base EXCEPT !.score = 100],
    [base EXCEPT !.sps = 30, !.upgrades = [NoUpgrades EXCEPT !["upgrade2"] = 1, !["upgrade4"] = 1],
                 !.hasPointsPerClick = TRUE],
    [base EXCEPT !.score = 1444, !.upgrades = [NoUpgrades EXCEPT !["upgrade3"] = 2],
                 !.hasPointsPerClick = TRUE, !.pointsPerClick = 10],
    [base EXCEPT !.score = 5, !.last_updated = 0 - SeedAge],
    [base EXCEPT !.sps = 45, !.upgrades = [NoUpgrades EXCEPT !["upgrade2"] = 4, !["upgrade4"] = 1],
                 !.hasPointsPerClick = TRUE, !.last_updated = 0 - SeedAge] }

\* The names the friend endpoints are called with; "z" is no player's name.
FriendNames == {<<"a">>, <<"b">>, <<"c">>, <<"z">>}

\* The names of the friend calls that are served at the same time.
ConcurrentFriendNames == {<<"a">>, <<"b">>, <<"z">>}

FriendDocs == {"d0", "d1", "d2"}

\* FRIEND_REQUESTS_COLLECTION: the ids of the documents per (sender_name,
\* receiver_name); a document's id is the number of the call that added it.
NoRequests == [p \in FriendNames \X FriendNames |-> {}]

\* FRIENDS_COLLECTION: the number of documents per (player_id, friend_id)
NoFriends == [p \in FriendDocs \X FriendDocs |-> 0]

Init ==
  /\ clock = 0
  /\ \E p \in SeedPlayers : players = [d \in {"d0"} |-> p]
  /\ nextUuid = 1
  /\ req = [w \in Workers |-> Idle]
  /\ issued = 0
  /\ friend_requests = NoRequests
  /\ friends = NoFriends

\* --------------------------------------------------------------- helpers
\* line 228: sum(1 for a in payload.actions if a.get("type") == "click").
\* The elements of payload.actions are PlayerAction objects (lines 72-77),
\* which have no attribute `get`: the first element raises AttributeError, so
\* only an empty batch is counted.
CountClicks(batch) ==
  IF batch = << >> THEN [raised |-> FALSE, count |-> 0]
  ELSE [raised |-> TRUE, count |-> 0]

RECURSIVE LStrip(_)
LStrip(name) == IF name # << >> /\ Head(name) = " " THEN LStrip(Tail(name)) ELSE name

RECURSIVE RStrip(_)
RStrip(name) ==
  IF name # << >> /\ name[Len(name)] = " " THEN RStrip(SubSeq(name, 1, Len(name) - 1)) ELSE name

\* line 133: payload.name.strip()
Strip(name) == RStrip(LStrip(name))

\* A name lookup that never finds a player.
PlayersByNameNone(name) == {}

\* line 138: PLAYERS_COLLECTION.where("name", "==", player_name)
PlayersByName(name) == {d \in DOMAIN players : players[d].name = name}

\* A header check that forgets the scheme.
HasBearerAnyScheme(header) == Len(header) >= 2

\* line 109: token present and token.startswith("Bearer ")
HasBearer(header) == Len(header) >= 2 /\ header[1] = "Bearer"

\* A token lookup that matches every stored player.
PlayersByTokenAny(tok) == DOMAIN players

\* line 115: PLAYERS_COLLECTION.where("token", "==", player_token)
PlayersByToken(tok) == {d \in DOMAIN players : players[d].token = tok}

Finish(w, status, detail) ==
  req' = [req EXCEPT ![w].pc = "done", ![w].status = status, ![w].detail = detail]

\* --------------------------------------------------------------- actions
Tick ==
  /\ clock < MaxTime
  /\ clock' = clock + 1
  /\ UNCHANGED <<players, nextUuid, req, issued, friend_requests, friends>>

\* lines 103-123: get_authenticated_player, run as the dependency of
\* /game/actions (op = "actions") and /player_data (op = "player_data").
Authenticate(w, op, header, batch) ==
  /\ req[w].pc = "idle"
  /\ issued < MaxRequests
  /\ issued' = issued + 1
  /\ LET started == [Idle EXCEPT !.op = op, !.header = header] IN
     IF ~HasBearer(header)
     THEN req' = [req EXCEPT ![w] = [started EXCEPT !.pc = "done", !.status = 401,
                                        !.detail = "Missing or invalid token"]]
     ELSE IF PlayersByToken(header[2]) = {}
     THEN req' = [req EXCEPT ![w] = [started EXCEPT !.pc = "done", !.status = 401,
                                        !.detail = "Invalid token or player not found"]]
     ELSE \E d \in PlayersByToken(header[2]) :
            req' = [req EXCEPT ![w] = [started EXCEPT !.pc = "authed", !.doc_id = d,
                                          !.player = players[d], !.batch = batch]]
  /\ UNCHANGED <<clock, players, nextUuid, friend_requests, friends>>

StartActions(w, batches) ==
  \E header \in ActionHeaders, batch \in batches : Authenticate(w, "actions", header, batch)

StartPlayerData(w) ==
  \E header \in Headers : Authenticate(w, "player_data", header, << >>)

\* lines 171-187: get_player_data reads the clock and computes the score
GetPlayerDataBegin(w) ==
  /\ req[w].pc = "authed"
  /\ req[w].op = "player_data"
  /\ LET player == req[w].player
         now == clock
         passive_earned == PassiveEarned(player.sps, now - player.last_updated)
         updated_score == player.score + passive_earned
     IN req' = [req EXCEPT ![w].pc = "update", ![w].now = now,
                           ![w].score = updated_score, ![w].sps = player.sps,
                           ![w].player_upgrades = player.upgrades]
  /\ UNCHANGED <<clock, players, nextUuid, issued, friend_requests, friends>>

\* lines 189-202: player_doc_ref.update({"score", "last_updated"}) and the response
GetPlayerDataUpdate(w) ==
  /\ req[w].pc = "update"
  /\ players' = [players EXCEPT ![req[w].doc_id].score = req[w].score,
                                ![req[w].doc_id].last_updated = req[w].now]
  /\ Finish(w, 200, "")
  /\ UNCHANGED <<clock, nextUuid, issued, friend_requests, friends>>

\* An unhandled exception at line 228: the app answers 500; the handler has
\* read the clock (line 212) and has written nothing.
InternalServerError(w) ==
  /\ req' = [req EXCEPT ![w].pc = "done", ![w].status = 500, ![w].now = clock,
                        ![w].detail = "Internal Server Error"]
  /\ UNCHANGED players

\* lines 210-236: receive_actions up to the anti-cheat check. The purchase
\* loop of lines 248-313 never runs: line 228 raises for every non-empty
\* batch, and an empty batch has no action to loop over.
ReceiveActionsBegin(w) ==
  /\ req[w].pc = "authed"
  /\ req[w].op = "actions"
  /\ LET player == req[w].player
         now == clock
         ticks == now - player.last_updated
         score_after_passive == player.score + PassiveEarned(player.sps, ticks)
         click_count == CountClicks(req[w].batch)
     IN IF click_count.raised
        THEN InternalServerError(w)
        ELSE IF TooManyClicks(click_count.count, ticks)
        THEN /\ req' = [req EXCEPT ![w].pc = "done", ![w].status = 400, ![w].now = now,
                          ![w].detail = "Too many clicks in short time (possible cheating)"]
             /\ UNCHANGED players
        ELSE /\ req' = [req EXCEPT ![w].pc = "loop", ![w].now = now,
                          ![w].score = score_after_passive + click_count.count,
                          ![w].sps = player.sps,
                          ![w].player_upgrades = player.upgrades]
             /\ UNCHANGED players
  /\ UNCHANGED <<clock, nextUuid, issued, friend_requests, friends>>

\* lines 315-323: the final update and the success response
FinalUpdate(w) ==
  /\ req[w].pc = "loop"
  /\ players' = [players EXCEPT ![req[w].doc_id].score = req[w].score,
                                ![req[w].doc_id].sps = req[w].sps,
                                ![req[w].doc_id].upgrades = req[w].player_upgrades,
                                ![req[w].doc_id].last_updated = req[w].now]
  /\ Finish(w, 200, "Actions processed successfully")
  /\ UNCHANGED <<clock, nextUuid, issued, friend_requests, friends>>

\* The response has been sent; the worker takes the next request.
Respond(w) ==
  /\ req[w].pc = "done"
  /\ req' = [req EXCEPT ![w] = Idle]
  /\ UNCHANGED <<clock, players, nextUuid, issued, friend_requests, friends>>

\* lines 133-143: register_player up to the name lookup
RegisterLookup(w) ==
  /\ req[w].pc = "idle"
  /\ issued < MaxRequests
  /\ nextUuid + 1 <= Len(UuidPool)
  /\ issued' = issued + 1
  /\ \E name \in Names :
       LET player_name == Strip(name)
           started == [Idle EXCEPT !.op = "register", !.payload_name = name,
                                      !.name = player_name]
       IN IF player_name = << >>
          THEN req' = [req EXCEPT ![w] = [started EXCEPT !.pc = "done", !.status = 400,
                                             !.detail = "Player name cannot be empty."]]
          ELSE IF PlayersByName(player_name) # {}
          THEN \E d \in PlayersByName(player_name) :
                 req' = [req EXCEPT ![w] = [started EXCEPT !.pc = "done", !.status = 200,
                                               !.doc_id = d, !.token = players[d].token]]
          ELSE req' = [req EXCEPT ![w] = [started EXCEPT !.pc = "register"]]
  /\ UNCHANGED <<clock, players, nextUuid, friend_requests, friends>>

\* lines 145-156: the two uuid4() values and new_player_data, whose
\* last_updated is the clock value read here
RegisterNewPlayerData(w) ==
  /\ req[w].pc = "register"
  /\ req' = [req EXCEPT ![w].pc = "set", ![w].now = clock,
                        ![w].doc_id = UuidPool[nextUuid],
                        ![w].token = UuidPool[nextUuid + 1]]
  /\ nextUuid' = nextUuid + 2
  /\ UNCHANGED <<clock, players, issued, friend_requests, friends>>

\* lines 158-161: doc_ref.set(new_player_data) and the response
RegisterWrite(w) ==
  /\ req[w].pc = "set"
  /\ LET player_id == req[w].doc_id
     IN players' = [d \in DOMAIN players \cup {player_id} |->
                      IF d = player_id THEN NewPlayer(req[w].name, req[w].token, req[w].now)
                      ELSE players[d]]
  /\ req' = [req EXCEPT ![w].pc = "done", ![w].status = 200]
  /\ UNCHANGED <<clock, nextUuid, issued, friend_requests, friends>>

Step(w, batches) ==
  \/ StartActions(w, batches)
  \/ StartPlayerData(w)
  \/ GetPlayerDataBegin(w)
  \/ GetPlayerDataUpdate(w)
  \/ ReceiveActionsBegin(w)
  \/ FinalUpdate(w)
  \/ RegisterLookup(w)
  \/ RegisterNewPlayerData(w)
  \/ RegisterWrite(w)
  \/ Respond(w)

\* One worker: requests are served one after the other.
Next == Tick \/ Step(1, Batches)

Spec == Init /\ [][Next]_vars

\* Two workers: requests interleave at the store operations.
NextConcurrent == Tick \/ \E w \in Workers : Step(w, ConcurrentBatches)

SpecConcurrent == Init /\ [][NextConcurrent]_vars

\* ------------------------------------------------------------ leaderboard
\* The documents of a store with one player more than the leaderboard shows,
\* in ascending order of their ids.
BoardDocs == <<"p00", "p01", "p02", "p03", "p04", "p05", "p06", "p07", "p08", "p09", "p10">>

DocRank == [d \in {BoardDocs[i] : i \in 1..Len(BoardDocs)} |->
              CHOOSE i \in 1..Len(BoardDocs) : BoardDocs[i] = d]

\* An ordering that puts the lowest score first.
BetterAscending(d, e) ==
  \/ players[d].score < players[e].score
  \/ players[d].score = players[e].score /\ DocRank[d] > DocRank[e]

\* line 329: order_by("score", DESCENDING); documents of equal score follow
\* in descending order of their ids.
Better(d, e) ==
  \/ players[d].score > players[e].score
  \/ players[d].score = players[e].score /\ DocRank[d] > DocRank[e]

RECURSIVE InsertDoc(_, _)
\* Puts d at its place in a sequence of documents that is in query order.
InsertDoc(d, sorted) ==
  IF sorted = << >> THEN <<d>>
  ELSE IF Better(d, Head(sorted)) THEN <<d>> \o sorted
  ELSE <<Head(sorted)>> \o InsertDoc(d, Tail(sorted))

RECURSIVE SortDocs(_)
\* line 329: order_by("score", DESCENDING) over the documents docs
SortDocs(docs) ==
  IF docs = {} THEN << >>
  ELSE \* any d will do: the order of the result does not depend on it
       LET d == CHOOSE x \in docs : TRUE
       IN InsertDoc(d, SortDocs(docs \ {d}))

\* line 329: .limit(k), the first k documents in query order
TopOf(docs, k) ==
  LET sorted == SortDocs(docs)
  IN IF Len(sorted) <= k THEN sorted ELSE SubSeq(sorted, 1, k)

\* lines 329-331: get_leaderboard
GetLeaderboard(w) ==
  /\ req[w].pc = "idle"
  /\ \E leaderboard_query \in {TopOf(DOMAIN players, LeaderboardLimit)} :
       LET leaderboard_data == [j \in 1..Len(leaderboard_query) |->
                                  [name |-> players[leaderboard_query[j]].name,
                                   score |-> players[leaderboard_query[j]].score]]
       IN req' = [req EXCEPT ![w] = [Idle EXCEPT !.pc = "done", !.op = "leaderboard",
                                                 !.status = 200, !.result = leaderboard_data]]
  /\ UNCHANGED <<clock, players, nextUuid, issued, friend_requests, friends>>

\* A store of up to Len(BoardDocs) players with scores up to MaxBoardScore.
InitLeaderboard ==
  /\ clock = 0
  /\ \E n \in 0..Len(BoardDocs) :
       \E scores \in [1..n -> 0..MaxBoardScore] :
         players = [d \in {BoardDocs[j] : j \in 1..n} |->
                      [NewPlayer(<<d>>, d, 0) EXCEPT !.score = scores[DocRank[d]]]]
  /\ nextUuid = 1
  /\ req = [w \in Workers |-> Idle]
  /\ issued = 0
  /\ friend_requests = NoRequests
  /\ friends = NoFriends

NextLeaderboard == GetLeaderboard(1) \/ Respond(1)

SpecLeaderboard == InitLeaderboard /\ [][NextLeaderboard]_vars

\* lines 386, 449: FRIEND_REQUESTS_COLLECTION.where("sender_name", "==", sender)
\*                   .where("receiver_name", "==", receiver).limit(1).get()
HasRequest(sender, receiver) == friend_requests[<<sender, receiver>>] # {}

\* lines 376, 381, 470, 474: FRIENDS_COLLECTION.where("player_id", "==", player_id)
\*                             .where("friend_id", "==", friend_id).limit(1).get()
HasFriendship(player_id, friend_id) == friends[<<player_id, friend_id>>] > 0

\* lines 471, 475: FRIENDS_COLLECTION.add({"player_id": ..., "friend_id": ...})
AddFriendship(player_id, friend_id) ==
  [friends EXCEPT ![<<player_id, friend_id>>] = @ + 1]

\* A missing query result.
NoDoc == ""

\* The first document of a query result, or NoDoc for an empty result.
FirstOf(docs) == IF docs = {} THEN {NoDoc} ELSE docs

\* lines 356-365: add_friend up to the lookup of the friend; the request's
\* sender is payload.player_name and its receiver payload.friend_name, both
\* drawn from names.
AddFriendLookup(w, names) ==
  /\ req[w].pc = "idle"
  /\ issued < MaxFriendCalls
  /\ issued' = issued + 1
  /\ \E player_name \in names, friend_name \in names :
       LET started == [Idle EXCEPT !.op = "add_friend", !.sender = player_name,
                                   !.receiver = friend_name, !.call = issued + 1]
       IN IF player_name = friend_name
          THEN req' = [req EXCEPT ![w] = [started EXCEPT !.pc = "done", !.status = 400,
                          !.detail = "Cannot send friend request to yourself."]]
          ELSE IF PlayersByName(friend_name) = {}
          THEN req' = [req EXCEPT ![w] = [started EXCEPT !.pc = "done", !.status = 404,
                          !.detail = "That player doesn't exist!"]]
          ELSE \E friend_doc_id \in PlayersByName(friend_name) :
                 req' = [req EXCEPT ![w] = [started EXCEPT !.pc = "find_player",
                                               !.receiver_id = friend_doc_id]]
  /\ UNCHANGED <<clock, players, nextUuid, friend_requests, friends>>

\* lines 367-373: the lookup of the sending player
AddFriendLookupPlayer(w) ==
  /\ req[w].pc = "find_player"
  /\ IF PlayersByName(req[w].sender) = {}
     THEN Finish(w, 404, "Player not found!")
     ELSE \E player_doc_id \in PlayersByName(req[w].sender) :
            req' = [req EXCEPT ![w].pc = "check_friends", ![w].sender_id = player_doc_id]
  /\ UNCHANGED <<clock, players, nextUuid, issued, friend_requests, friends>>

\* lines 375-378: the friendship query player -> friend
AddFriendCheckFriends(w) ==
  /\ req[w].pc = "check_friends"
  /\ IF HasFriendship(req[w].sender_id, req[w].receiver_id)
     THEN Finish(w, 400, "Already friends!")
     ELSE req' = [req EXCEPT ![w].pc = "check_friends_back"]
  /\ UNCHANGED <<clock, players, nextUuid, issued, friend_requests, friends>>

\* lines 380-383: the friendship query friend -> player
AddFriendCheckFriendsBack(w) ==
  /\ req[w].pc = "check_friends_back"
  /\ IF HasFriendship(req[w].receiver_id, req[w].sender_id)
     THEN Finish(w, 400, "Already friends!")
     ELSE req' = [req EXCEPT ![w].pc = "check_request"]
  /\ UNCHANGED <<clock, players, nextUuid, issued, friend_requests, friends>>

\* lines 385-388: the pending-request query of add_friend
AddFriendCheckRequest(w) ==
  /\ req[w].pc = "check_request"
  /\ IF HasRequest(req[w].sender, req[w].receiver)
     THEN Finish(w, 400, "Friend request already sent!")
     ELSE req' = [req EXCEPT ![w].pc = "send_request"]
  /\ UNCHANGED <<clock, players, nextUuid, issued, friend_requests, friends>>

\* lines 391-396: FRIEND_REQUESTS_COLLECTION.add(...)
AddFriendSend(w) ==
  /\ req[w].pc = "send_request"
  /\ friend_requests' = [friend_requests EXCEPT ![<<req[w].sender, req[w].receiver>>] =
                            @ \cup {req[w].call}]
  /\ Finish(w, 200, "Friend request sent")
  /\ UNCHANGED <<clock, players, nextUuid, issued, friends>>

\* lines 444-451: respond_friend_request up to the request query, which
\* returns one of the pair's request documents; the names are drawn from names
RespondFind(w, names) ==
  /\ req[w].pc = "idle"
  /\ issued < MaxFriendCalls
  /\ issued' = issued + 1
  /\ \E sender \in names, receiver \in names, accept \in BOOLEAN :
       LET started == [Idle EXCEPT !.op = "respond", !.sender = sender,
                                   !.receiver = receiver, !.accept = accept]
       IN IF ~HasRequest(sender, receiver)
          THEN req' = [req EXCEPT ![w] = [started EXCEPT !.pc = "done", !.status = 404,
                          !.detail = "Friend request not found."]]
          ELSE \E request_doc \in friend_requests[<<sender, receiver>>] :
                 req' = [req EXCEPT ![w] = [started EXCEPT !.pc = "delete_request",
                                               !.request_doc = request_doc]]
  /\ UNCHANGED <<clock, players, nextUuid, friend_requests, friends>>

\* lines 453-454, 481-482: request_doc_ref.delete() of the document found at
\* line 449 (no effect when it is already deleted), and the answer to a decline
RespondDelete(w) ==
  /\ req[w].pc = "delete_request"
  /\ friend_requests' = [friend_requests EXCEPT ![<<req[w].sender, req[w].receiver>>] =
                            @ \ {req[w].request_doc}]
  /\ IF req[w].accept
     THEN req' = [req EXCEPT ![w].pc = "find_players"]
     ELSE Finish(w, 200, "Friend request declined.")
  /\ UNCHANGED <<clock, players, nextUuid, issued, friends>>

\* lines 456-458: the lookup of the sender of an accepted request
RespondFindSender(w) ==
  /\ req[w].pc = "find_players"
  /\ \E sender_id \in FirstOf(PlayersByName(req[w].sender)) :
       req' = [req EXCEPT ![w].pc = "find_receiver", ![w].sender_id = sender_id]
  /\ UNCHANGED <<clock, players, nextUuid, issued, friend_requests, friends>>

\* lines 459-465: the lookup of the receiver, and the test of both results
RespondFindReceiver(w) ==
  /\ req[w].pc = "find_receiver"
  /\ IF req[w].sender_id = NoDoc \/ PlayersByName(req[w].receiver) = {}
     THEN Finish(w, 404, "One or both players not found for friendship.")
     ELSE \E receiver_id \in PlayersByName(req[w].receiver) :
            req' = [req EXCEPT ![w].pc = "check_first", ![w].receiver_id = receiver_id]
  /\ UNCHANGED <<clock, players, nextUuid, issued, friend_requests, friends>>

\* lines 470-471: the query for the entry (receiver, sender)
RespondCheckFirst(w) ==
  /\ req[w].pc = "check_first"
  /\ req' = [req EXCEPT ![w].pc =
                IF HasFriendship(req[w].receiver_id, req[w].sender_id)
                THEN "check_second" ELSE "add_first"]
  /\ UNCHANGED <<clock, players, nextUuid, issued, friend_requests, friends>>

\* line 472: FRIENDS_COLLECTION.add of the entry (receiver, sender)
RespondAddFirst(w) ==
  /\ req[w].pc = "add_first"
  /\ friends' = AddFriendship(req[w].receiver_id, req[w].sender_id)
  /\ req' = [req EXCEPT ![w].pc = "check_second"]
  /\ UNCHANGED <<clock, players, nextUuid, issued, friend_requests>>

\* lines 474-475, 478: the query for the entry (sender, receiver), and the
\* answer when it exists
RespondCheckSecond(w) ==
  /\ req[w].pc = "check_second"
  /\ IF HasFriendship(req[w].sender_id, req[w].receiver_id)
     THEN Finish(w, 200, "Friend request accepted!")
     ELSE req' = [req EXCEPT ![w].pc = "add_second"]
  /\ UNCHANGED <<clock, players, nextUuid, issued, friend_requests, friends>>

\* lines 476-478: FRIENDS_COLLECTION.add of the entry (sender, receiver), and
\* the answer
RespondAddSecond(w) ==
  /\ req[w].pc = "add_second"
  /\ friends' = AddFriendship(req[w].sender_id, req[w].receiver_id)
  /\ Finish(w, 200, "Friend request accepted!")
  /\ UNCHANGED <<clock, players, nextUuid, issued, friend_requests>>

\* lines 468-480: a store call inside the try block (lines 470-476) raises;
\* the handler answers 500 "Error creating friendship: ..." and what it has
\* written stays.  This is the one except branch that can follow a write of
\* its own request; the others (lines 161-163, 397-398) answer 500 with the
\* store as it was.
RespondError(w) ==
  /\ req[w].pc \in {"check_first", "add_first", "check_second", "add_second"}
  /\ Finish(w, 500, "Error creating friendship")
  /\ UNCHANGED <<clock, players, nextUuid, issued, friend_requests, friends>>

\* Three registered players and no friend request or friendship yet.
InitFriends ==
  /\ clock = 0
  /\ players = [d \in FriendDocs |->
                  IF d = "d0" THEN NewPlayer(<<"a">>, "t0", 0)
                  ELSE IF d = "d1" THEN NewPlayer(<<"b">>, "t1", 0)
                  ELSE NewPlayer(<<"c">>, "t2", 0)]
  /\ nextUuid = 1
  /\ req = [w \in Workers |-> Idle]
  /\ issued = 0
  /\ friend_requests = NoRequests
  /\ friends = NoFriends

\* One step of a friend call of worker w, the calls' names drawn from names.
StepFriends(w, names) ==
  \/ AddFriendLookup(w, names)
  \/ AddFriendLookupPlayer(w)
  \/ AddFriendCheckFriends(w)
  \/ AddFriendCheckFriendsBack(w)
  \/ AddFriendCheckRequest(w)
  \/ AddFriendSend(w)
  \/ RespondFind(w, names)
  \/ RespondDelete(w)
  \/ RespondFindSender(w)
  \/ RespondFindReceiver(w)
  \/ RespondCheckFirst(w)
  \/ RespondAddFirst(w)
  \/ RespondCheckSecond(w)
  \/ RespondAddSecond(w)
  \/ RespondError(w)
  \/ Respond(w)

\* One worker: friend calls are served one after the other.
NextFriends == StepFriends(1, FriendNames)

SpecFriends == InitFriends /\ [][NextFriends]_vars

\* Two workers: friend calls interleave at the store operations.
NextFriendsConcurrent == \E w \in Workers : StepFriends(w, ConcurrentFriendNames)

SpecFriendsConcurrent == InitFriends /\ [][NextFriendsConcurrent]_vars

\* ======================================================================
\* Properties
\* ======================================================================

IsActions(w) == req[w].op = "actions" /\ req[w].pc \notin {"idle", "authed"} /\ req[w].status # 401

IsPurchase(action) == action.type = "buy_upgrade"

\* The purchase actions of a batch, in batch order.
Purchases(batch) == SelectSeq(batch, IsPurchase)

HasNoPurchase(batch) == Purchases(batch) = << >>

RECURSIVE ClicksAmong(_)
\* The number of click actions of a batch.
ClicksAmong(batch) ==
  IF batch = << >> THEN 0
  ELSE (IF Head(batch).type = "click" THEN 1 ELSE 0) + ClicksAmong(Tail(batch))

Max(a, b) == IF a >= b THEN a ELSE b

\* The click ceiling of the specification: max(1, floor(secondsPassed * RATE)).
MaxClicksAllowed(ticks) == Max(1, (ticks * max_clicks_per_second) \div TicksPerSecond)

StoredDoc(w) == players[req[w].doc_id]

ElapsedTicks(w) == req[w].now - req[w].player.last_updated

\* floor(sps * secondsPassed) in exact arithmetic, for a time span in ticks.
ExactPassive(sps, ticks) == (sps * ticks) \div TicksPerSecond

RECURSIVE Pow(_, _)
Pow(b, e) == IF e = 0 THEN 1 ELSE b * Pow(b, e - 1)

\* floor(baseCost * costMultiplier^level) in exact arithmetic: the price the
\* specification states for a regular upgrade at an owned level.
ExactPrice(u, level) ==
  (SERVER_UPGRADES_META[u].baseCost * Pow(SERVER_UPGRADES_META[u].costMultiplier10, level))
     \div Pow(10, level)

\* The score a batch's first purchase may spend according to the
\* specification: stored score + passive income + the clicks of the batch.
RunningScore(w) ==
  req[w].player.score + ExactPassive(req[w].player.sps, ElapsedTicks(w))
    + ClicksAmong(req[w].batch)

\* The statuses of a validation or authorization failure.
RejectionStatuses == {400, 403, 422, 429}

\* C2: every batch with more clicks than max(1, floor(secondsPassed * 10)) is
\* rejected with a validation or authorization failure and nothing of it is
\* stored, for every secondsPassed >= 0.
C2_ClickCeilingRejects ==
  \A w \in Workers :
    (IsActions(w) /\ req[w].pc = "done" /\ ElapsedTicks(w) >= 0
       /\ ClicksAmong(req[w].batch) > MaxClicksAllowed(ElapsedTicks(w)))
    => (/\ req[w].status \in RejectionStatuses
        /\ StoredDoc(w) = req[w].player)

\* C3: a batch without purchases whose click count is at most
\* max(1, floor(secondsPassed * 10)) is accepted, the stored score then being
\* the previous score + floor(sps * secondsPassed) + the clicks and
\* last_updated the request's now.
C3_ClicksWithinCeilingAccepted ==
  \A w \in Workers :
    (IsActions(w) /\ req[w].pc = "done" /\ HasNoPurchase(req[w].batch)
       /\ \A j \in 1..Len(req[w].batch) : req[w].batch[j].type = "click"
       /\ ElapsedTicks(w) >= 0
       /\ ClicksAmong(req[w].batch) <= MaxClicksAllowed(ElapsedTicks(w)))
    => (/\ req[w].status = 200
        /\ StoredDoc(w).score = req[w].player.score
                                  + ExactPassive(req[w].player.sps, ElapsedTicks(w))
                                  + ClicksAmong(req[w].batch)
        /\ StoredDoc(w).last_updated = req[w].now)

\* What an accepted request served alone, with the clock value it read, makes
\* of a record: the passive income up to its now is added to the score.
Outcome(rec, now) ==
  [rec EXCEPT !.score = @ + PassiveEarned(rec.sps, now - rec.last_updated),
              !.last_updated = now]

SameGameState(a, b) == a.score = b.score /\ a.sps = b.sps /\ a.upgrades = b.upgrades

IsGameRequest(w) ==
  req[w].pc = "done" /\ req[w].op \in {"actions", "player_data"} /\ req[w].status = 200

SerialOutcome(rec, first, second) == Outcome(Outcome(rec, req[first].now), req[second].now)

\* C4: two accepted requests for the same player that read the same record
\* leave the score, sps and upgrades that running them one after the other,
\* in one of the two orders, leaves.
C4_NoLostUpdate ==
  (IsGameRequest(1) /\ IsGameRequest(2) /\ req[1].doc_id = req[2].doc_id
     /\ req[1].player = req[2].player)
  => \E order \in {<<1, 2>>, <<2, 1>>} :
       SameGameState(StoredDoc(1), SerialOutcome(req[1].player, order[1], order[2]))

\* C5: every stored player record has score >= 0 and sps >= 0.
C5_ScoreAndSpsNonNegative ==
  \A d \in DOMAIN players : players[d].score >= 0 /\ players[d].sps >= 0

\* C5 witness: get_player_data has added passive income to a stored score.
C5_Witness ==
  \E w \in Workers :
    /\ req[w].op = "player_data" /\ req[w].pc = "done" /\ req[w].status = 200
    /\ req[w].player.sps > 0
    /\ StoredDoc(w).score > req[w].player.score

\* C6: no write lowers the stored last_updated of a player record.
C6_LastUpdatedNeverDecreases ==
  [][\A d \in DOMAIN players : players'[d].last_updated >= players[d].last_updated]_vars

\* C7: a batch that is one purchase of a regular upgrade at owned level L,
\* sent by a player who can pay floor(baseCost * costMultiplier^L), is
\* accepted and charged exactly that price.
C7_PriceIsExactFloor ==
  \A w \in Workers : \A u \in UpgradeIds :
    (IsActions(w) /\ req[w].pc = "done" /\ req[w].batch = <<Buy(u)>>
       /\ ElapsedTicks(w) >= 0
       /\ RunningScore(w) >= ExactPrice(u, req[w].player.upgrades[u]))
    => (/\ req[w].status = 200
        /\ StoredDoc(w).score = RunningScore(w) - ExactPrice(u, req[w].player.upgrades[u])
        /\ StoredDoc(w).upgrades[u] = req[w].player.upgrades[u] + 1)

\* C8: in a batch of clicks (within the ceiling) followed by one purchase of
\* a regular upgrade, the purchase spends from stored score + passive income
\* + the batch's clicks: when that covers the price the batch is accepted,
\* the stored score is what is left, the level is one higher and sps is
\* higher by the upgrade's ppsIncrease.
C8_PurchasesInBatchOrder ==
  \A w \in Workers : \A u \in UpgradeIds :
    (IsActions(w) /\ req[w].pc = "done"
       /\ ClicksAmong(req[w].batch) >= 1
       /\ req[w].batch = Clicks(ClicksAmong(req[w].batch)) \o <<Buy(u)>>
       /\ ElapsedTicks(w) >= 0
       /\ ClicksAmong(req[w].batch) <= MaxClicksAllowed(ElapsedTicks(w))
       /\ RunningScore(w) >= ExactPrice(u, req[w].player.upgrades[u]))
    => (/\ req[w].status = 200
        /\ StoredDoc(w).score = RunningScore(w) - ExactPrice(u, req[w].player.upgrades[u])
        /\ StoredDoc(w).upgrades[u] = req[w].player.upgrades[u] + 1
        /\ StoredDoc(w).sps = req[w].player.sps + SERVER_UPGRADES_META[u].ppsIncrease)

\* The batch's clicks are within the ceiling and its only purchase is a
\* regular catalog upgrade that costs more than the running score.
OnlyPurchaseTooExpensive(w) ==
  LET bought == Purchases(req[w].batch) IN
    /\ IsActions(w)
    /\ Len(bought) = 1
    /\ ~bought[1].is_ai_upgrade
    /\ bought[1].upgrade_id \in UpgradeIds
    /\ \A j \in 1..Len(req[w].batch) : req[w].batch[j].type \in {"click", "buy_upgrade"}
    /\ ElapsedTicks(w) >= 0
    /\ ClicksAmong(req[w].batch) <= MaxClicksAllowed(ElapsedTicks(w))
    /\ ExactPrice(bought[1].upgrade_id, req[w].player.upgrades[bought[1].upgrade_id])
         > RunningScore(w)

\* C9: a batch whose only purchase costs more than the running score is
\* rejected for insufficient funds (400 "Not enough spanks for upgrade") and
\* the stored record is unchanged.
C9_InsufficientFundsRejects ==
  \A w \in Workers :
    (OnlyPurchaseTooExpensive(w) /\ req[w].pc = "done")
    => (/\ req[w].status = 400
        /\ req[w].detail = "Not enough spanks for upgrade"
        /\ StoredDoc(w) = req[w].player)

\* The header is missing, does not start with "Bearer ", or the token after
\* "Bearer " belongs to no stored player.
BadCredential(header) ==
  \/ Len(header) < 2
  \/ header[1] # "Bearer"
  \/ \A d \in DOMAIN players : players[d].token # header[2]

\* C10: a request to /game/actions or /player_data with a bad credential
\* fails with 401 and changes no stored player record.
C10_BadCredentialIs401 ==
  [][\A w \in Workers :
       (req[w].pc = "idle" /\ req'[w].op \in {"actions", "player_data"}
          /\ BadCredential(req'[w].header))
       => (req'[w].pc = "done" /\ req'[w].status = 401 /\ players' = players)]_vars

\* C10 witness: a batch sent with the token of no stored player was answered 401.
C10_Witness ==
  \E w \in Workers :
    /\ req[w].op = "actions" /\ req[w].pc = "done" /\ req[w].status = 401
    /\ Len(req[w].header) = 2 /\ req[w].header[1] = "Bearer"
    /\ \A d \in DOMAIN players : players[d].token # req[w].header[2]

\* An action whose type is neither "click" nor "buy_upgrade", or a
\* buy_upgrade action that carries no upgrade_id.
IsMalformed(action) ==
  \/ action.type \notin {"click", "buy_upgrade"}
  \/ action.type = "buy_upgrade" /\ action.upgrade_id = NoneId

\* C11: a batch that contains a malformed action is rejected with a
\* validation failure (a 4xx answer) and nothing of it is stored.
C11_MalformedActionRejected ==
  \A w \in Workers :
    (IsActions(w) /\ req[w].pc = "done"
       /\ \E j \in 1..Len(req[w].batch) : IsMalformed(req[w].batch[j]))
    => (req[w].status \in {400, 422} /\ StoredDoc(w) = req[w].player)

\* C12: while a receive_actions or get_player_data request authenticated as
\* player A is being served, the stored record of every other player B (a
\* record whose token is not the one of the request) stays as it is, whether
\* the request ends accepted or rejected.
C12_OtherPlayersUntouched ==
  [][\A w \in Workers :
       (req[w].op \in {"actions", "player_data"} /\ req[w].pc \notin {"idle", "done"})
       => \A d \in DOMAIN players :
            players[d].token # req[w].header[2]
            => (d \in DOMAIN players' /\ players'[d] = players[d])]_vars

\* A finished request of one player has changed that player's record while a
\* second player is stored.
C12_Witness ==
  \E w \in Workers :
    /\ req[w].op \in {"actions", "player_data"}
    /\ req[w].pc = "done"
    /\ req[w].status \in {200, 400, 500}
    /\ Cardinality(DOMAIN players) >= 2
    /\ StoredDoc(w) # req[w].player

\* C13: get_player_data stores score = previous score + floor(sps *
\* secondsPassed) and last_updated = now in the authenticated player's
\* record, returns that score, and leaves every other field of the record
\* (sps, upgrades, name, token) unchanged.
C13_PlayerDataRefreshesScoreOnly ==
  [][\A w \in Workers :
       (req[w].op = "player_data" /\ req[w].pc = "update" /\ req'[w].pc = "done")
       => LET d == req[w].doc_id
              before == players[d]
              earned == ExactPassive(before.sps, req[w].now - before.last_updated)
          IN /\ players'[d] = [before EXCEPT !.score = @ + earned, !.last_updated = req[w].now]
             /\ req'[w].score = before.score + earned]_vars

\* The stored players called n, and the tokens in use.
Named(n) == {d \in DOMAIN players : players[d].name = n}

StoredTokens == {players[d].token : d \in DOMAIN players}

\* What the claim asks of register when it is called for the name n: the
\* lookup step goes on to the write exactly for a non-empty n that nobody
\* has, and answers an existing player's token without touching the store
\* otherwise; the clock read stores nothing; the write step adds exactly one
\* record, with a fresh token and the clock value the request read.
RegisterAsClaimed(w, n) ==
  /\ (req[w].pc = "idle" /\ req'[w].op = "register" /\ n # << >> /\ Named(n) = {})
     => (req'[w].pc = "register" /\ players' = players)
  /\ (req[w].pc = "idle" /\ req'[w].op = "register" /\ Named(n) # {})
     => /\ req'[w].pc = "done" /\ req'[w].status = 200
        /\ players' = players
        /\ \E d \in Named(n) : req'[w].token = players[d].token
  /\ (req[w].pc = "register" /\ req'[w].pc = "set")
     => (req'[w].now = clock /\ players' = players)
  /\ (req[w].pc = "set" /\ req'[w].pc = "done")
     => \E d \in DOMAIN players' \ DOMAIN players :
          /\ DOMAIN players' = DOMAIN players \cup {d}
          /\ \A e \in DOMAIN players : players'[e] = players[e]
          /\ players'[d].score = 0 /\ players'[d].sps = 0
          /\ players'[d].upgrades = NoUpgrades
          /\ players'[d].last_updated = req[w].now
          /\ players'[d].token \notin StoredTokens
          /\ players'[d].token = req'[w].token
          /\ req'[w].status = 200

Min(a, b) == IF a <= b THEN a ELSE b

\* C15: get_leaderboard returns min(10, number of players) entries, each the
\* name and stored score of a different player, in non-increasing order of
\* score; every player not returned has a stored score <= the smallest
\* returned score; the call changes no stored record.
C15_LeaderboardIsTopTen ==
  [][\A w \in Workers :
       (req[w].pc = "idle" /\ req'[w].op = "leaderboard")
       => LET r == req'[w].result
              shown == {r[j].name : j \in 1..Len(r)}
          IN /\ players' = players
             /\ Len(r) = Min(LeaderboardLimit, Cardinality(DOMAIN players))
             /\ Cardinality(shown) = Len(r)
             /\ \A j \in 1..Len(r) :
                  \E d \in DOMAIN players :
                    players[d].name = r[j].name /\ players[d].score = r[j].score
             /\ \A j \in 1..(Len(r) - 1) : r[j].score >= r[j + 1].score
             /\ \A d \in DOMAIN players :
                  players[d].name \notin shown
                  => \A j \in 1..Len(r) : players[d].score <= r[j].score]_vars

\* A leaderboard of ten entries was returned from a store of eleven players,
\* with a higher and a lower score among the entries.
C15_Witness ==
  \E w \in Workers :
    /\ req[w].op = "leaderboard" /\ req[w].pc = "done"
    /\ Cardinality(DOMAIN players) > LeaderboardLimit
    /\ Len(req[w].result) = LeaderboardLimit
    /\ req[w].result[1].score > req[w].result[LeaderboardLimit].score

\* The stored friendship entries (player_id, friend_id).
Friendships == {p \in DOMAIN friends : friends[p] > 0}

RespondInProgress ==
  \E w \in Workers : req[w].op = "respond" /\ req[w].pc \notin {"idle", "done"}

\* C18: respond_friend_request fails with 404 changing nothing when there is
\* no pending (sender, receiver) request; otherwise, when it completes, the
\* pending request is gone whether it was accepted or declined, and after an
\* accept the friends collection contains both (sender, receiver) and
\* (receiver, sender); with no respond_friend_request in progress the
\* friendship relation is symmetric.
C18_RespondRemovesRequestAndIsSymmetric ==
  [][/\ \A w \in Workers :
          /\ (req[w].pc = "idle" /\ req'[w].op = "respond"
                /\ friend_requests[<<req'[w].sender, req'[w].receiver>>] = {})
             => /\ req'[w].pc = "done" /\ req'[w].status = 404
                /\ friend_requests' = friend_requests /\ friends' = friends
                /\ players' = players
          /\ (req[w].pc = "idle" /\ req'[w].op = "respond"
                /\ friend_requests[<<req'[w].sender, req'[w].receiver>>] # {})
             => req'[w].status # 404
          /\ (req'[w].op = "respond" /\ req[w].pc # "done" /\ req'[w].pc = "done"
                /\ req'[w].status = 200)
             => /\ friend_requests'[<<req'[w].sender, req'[w].receiver>>] = {}
                /\ req'[w].accept
                   => \E s \in Named(req'[w].sender), r \in Named(req'[w].receiver) :
                        friends'[<<s, r>>] > 0 /\ friends'[<<r, s>>] > 0
     /\ ~RespondInProgress'
        => \A p \in DOMAIN friends : friends'[p] > 0 => friends'[<<p[2], p[1]>>] > 0]_vars

\* C19: add_friend creates a request only from a registered player to another
\* registered player, never to the sender themselves, and never for an
\* ordered (sender, receiver) pair that already has a pending request; at
\* most one request is pending per ordered pair.
C19_AtMostOneRequestPerPair ==
  [][\A p \in DOMAIN friend_requests :
       /\ Cardinality(friend_requests'[p]) <= 1
       /\ friend_requests'[p] \ friend_requests[p] # {}
          => /\ p[1] # p[2]
             /\ Named(p[1]) # {} /\ Named(p[2]) # {}
             /\ friend_requests[p] = {}
             /\ \E w \in Workers : req[w].op = "add_friend" /\ req'[w].status = 200
                                   /\ <<req[w].sender, req[w].receiver>> = p]_vars

\* C20: every step that changes a stored score is the write of a request for
\* that record which also stores that request's now as last_updated, and it
\* adds at most floor(sps * secondsPassed) for the time since the
\* last_updated stored before, so no interval is credited twice.
C20_PassiveIncomeWriteSetsLastUpdated ==
  [][\A d \in DOMAIN players :
       players'[d].score # players[d].score
       => \E w \in Workers :
            /\ req[w].doc_id = d
            /\ req'[w].pc = "done"
            /\ players'[d].last_updated = req'[w].now
            /\ players'[d].score - players[d].score
                 <= ExactPassive(players[d].sps, req'[w].now - players[d].last_updated)]_vars

\* C20 witness: an empty batch has stored its passive income with its now.
C20_Witness ==
  \E w \in Workers :
    /\ IsActions(w) /\ req[w].pc = "done" /\ req[w].status = 200
    /\ ExactPassive(req[w].player.sps, ElapsedTicks(w)) > 0
    /\ StoredDoc(w).score > req[w].player.score
    /\ StoredDoc(w).last_updated = req[w].now

\* C22: no two stored player records have the same name, also when two
\* register requests with the same new name are served at the same time.
C22_NamesAreUnique ==
  \A d, e \in DOMAIN players : d # e => players[d].name # players[e].name

\* No add_friend or respond_friend_request call is being served.
NoFriendOperation ==
  \A w \in Workers :
    req[w].op \in {"add_friend", "respond"} => req[w].pc \in {"idle", "done"}

\* C23: with no friend operation in progress, no friend request is pending,
\* in either direction, between two players who are friends.
C23_NoRequestBetweenFriends ==
  NoFriendOperation
  => \A d, e \in DOMAIN players :
       (d \in FriendDocs /\ e \in FriendDocs /\ friends[<<d, e>>] > 0)
       => /\ friend_requests[<<players[d].name, players[e].name>>] = {}
          /\ friend_requests[<<players[e].name, players[d].name>>] = {}

====
